---- MODULE Spec2Model ----
(***************************************************************************)
(* A model of model_executors/base_executor.py: the Executor base class.   *)
(*                                                                         *)
(* The class is single threaded and its methods are independent of one     *)
(* another, so each group of methods gets a specification of its own:      *)
(*   SpecFake      get_fake and the caller's fake pool, over runs of calls *)
(*   SpecFakeOne   get_fake, one call with the larger samples              *)
(*   SpecGen       get_datagen_params, get_data_generator and the          *)
(*                 iteration of the iterator it returns                    *)
(*   SpecStop      stop_criterion, the epoch counter and the policy        *)
(*   SpecAlign     align_batches                                           *)
(*   SpecResidual  add_residual                                            *)
(***************************************************************************)
EXTENDS Integers, Sequences, FiniteSets, TLC

VARIABLES
    conf,         \* self.conf: [batch_size, seed]
    caller_list,  \* the list object last passed as fake_pool, as the caller sees it
    call,         \* the arguments of the last get_fake call
    ret,          \* what the last get_fake call produced
    total,        \* number of samples created so far (they are numbered 1..total)
    grown,        \* number of rows the calls have appended so far
    gargs,        \* the arguments of get_data_generator
    it,           \* what get_data_generator produced: the iterator and its state
    item,         \* the last item the iterator gave
    pulled,       \* number of items the iterator has given
    stopped,      \* the iterator has raised StopIteration
    epoch,        \* self.epoch
    es,           \* the early-stopping policy object
    scall,        \* the last stop_criterion call: its count, arguments, result
    ab,           \* the last align_batches call: its argument and its result
    ar            \* the last add_residual call: its argument and its result

fakeVars == <<caller_list, call, ret, total, grown>>
genVars == <<gargs, it, item, pulled, stopped>>
stopVars == <<epoch, es, scall>>
vars == <<conf, fakeVars, genVars, stopVars, ab, ar>>

\* What the actions of one group of methods leave alone.
fakeFrame == <<conf, genVars, stopVars, ab, ar>>
genFrame == <<conf, fakeVars, stopVars, ab, ar>>
stopFrame == <<conf, fakeVars, genVars, ab, ar>>
alignFrame == <<conf, fakeVars, genVars, stopVars, ar>>
residualFrame == <<conf, fakeVars, genVars, stopVars, ab>>

(***************************************************************************)
(* Bounds of the model.                                                    *)
(***************************************************************************)
MaxRows == 2        \* pred has 0..MaxRows rows
MaxGrowth == 2      \* rows appended to lists over a run
MaxBatchSize == 2   \* conf.batch_size is in 1..MaxBatchSize (generators)
MaxSeed == 1        \* conf.seed is in 0..MaxSeed
MaxArrays == 3      \* a call is given 0..MaxArrays arrays in all
MaxBatches == 2     \* a finite iterator gives 0..MaxBatches batches
MaxPulls == 3       \* items taken from an iterator in a run
MaxEpoch == 2       \* self.epoch is advanced up to MaxEpoch
MaxCalls == 3       \* stop_criterion calls in a run
MaxPatience == 2    \* the policy's patience is in 0..MaxPatience
MaxLoss == 2        \* the monitored value of logs is in 0..MaxLoss
MaxList == 2        \* align_batches is given a list of 0..MaxList arrays
MaxLead == 2        \* an array of align_batches has 0..MaxLead leading entries
MaxValue == 1       \* an entry of such an array is in 0..MaxValue
MaxPos == 2         \* the data of add_residual has 0..MaxPos positions
MaxChan == 2        \* and 0..MaxChan channels
MaxEntry == 2       \* with entries in 0..MaxEntry

(***************************************************************************)
(* Program constants.                                                      *)
(***************************************************************************)
PoolCap == 50       \* fake_pool[-50:]

\* The sizes of the pool the caller starts with: empty, and around the cap.
InitLens == {0, PoolCap - 1, PoolCap + 1}

\* The sample_size arguments of a run of calls: the default -1, none, one, and
\* more than any capped pool holds. The batch size is one, or more than any
\* capped pool holds.
SampleSizes == {-1, 0, 1, PoolCap + 1}
FakeConfs == [batch_size : {1, PoolCap + 1}, seed : {0}]

\* The sample_size arguments and batch sizes of a single call: also two
\* entries, where the distinctness of the drawn positions shows.
SampleSizesOne == {-1, 0, 1, 2, PoolCap + 1}
FakeConfsOne == [batch_size : {1, 2}, seed : {0}]

Confs == [batch_size : 1..MaxBatchSize, seed : 0..MaxSeed]

\* The samples numbered a..b, in order.
Range(a, b) == [i \in 1..(b - a + 1) |-> a + i - 1]

SeqToSet(s) == {s[i] : i \in 1..Len(s)}

(***************************************************************************)
(* The values of the variables before any call, and of the variables a     *)
(* specification does not use.                                             *)
(***************************************************************************)
NoCall == [pred |-> <<>>, fake_pool |-> <<>>, sample_size |-> 0, same |-> FALSE]
NoRet == [list |-> <<>>, outcome |-> "none", pool |-> <<>>, sel |-> <<>>,
          fake_A |-> <<>>]

IdleFake ==
    /\ caller_list = <<>>
    /\ call = NoCall
    /\ ret = NoRet
    /\ total = 0
    /\ grown = 0

NoArg == [kind |-> "none", arrays |-> <<>>]
NoIt == [kind |-> "new", gens |-> <<>>, pos |-> <<>>, active |-> <<>>]

IdleGen ==
    /\ gargs = [train_images |-> NoArg, train_labels |-> NoArg]
    /\ it = NoIt
    /\ item = <<>>
    /\ pulled = 0
    /\ stopped = FALSE

\* on_train_begin of the policy: wait = 0, stopped_epoch = 0, nothing stopped.
NewPolicy(patience, best) ==
    [patience |-> patience, best |-> best, wait |-> 0, stopped_epoch |-> 0,
     stop_training |-> FALSE, hook_calls |-> 0, hook_epoch |-> 0,
     hook_logs |-> 0]

NoStopCall == [count |-> 0, epoch |-> 0, logs |-> 0, result |-> "none"]

IdleStop ==
    /\ epoch = 0
    /\ es = NewPolicy(0, 0)
    /\ scall = NoStopCall

NoAlign == [array_list |-> <<>>, outcome |-> "none", new_list |-> <<>>]
IdleAlign == ab = NoAlign

NoResidual == [data |-> [C |-> 0, cells |-> <<>>], outcome |-> "none",
               result |-> [C |-> 0, cells |-> <<>>]]
IdleResidual == ar = NoResidual

(***************************************************************************)
(* get_fake                                                                *)
(***************************************************************************)

\* sample_size = self.conf.batch_size if sample_size == -1 else sample_size
RequestedSize(c, sample_size) ==
    IF sample_size = -1 THEN c.batch_size ELSE sample_size

\* if pred.shape[0] > 0: fake_pool.extend(pred)     (in place)
ExtendInPlace(fake_pool, pred) ==
    IF Len(pred) > 0 THEN fake_pool \o pred ELSE fake_pool

\* Mutant of CapPool: the slice keeps one entry too many.
CapPoolOneMore(fake_pool) ==
    IF Len(fake_pool) <= PoolCap + 1
    THEN fake_pool
    ELSE SubSeq(fake_pool, Len(fake_pool) - PoolCap, Len(fake_pool))

\* fake_pool[-50:]   (a new list: the last PoolCap entries, or all of them)
CapPool(fake_pool) ==
    IF Len(fake_pool) <= PoolCap
    THEN fake_pool
    ELSE SubSeq(fake_pool, Len(fake_pool) - PoolCap + 1, Len(fake_pool))

\* The sequences of k distinct positions of 1..n, in every order.
RECURSIVE Draws(_, _)
Draws(n, k) ==
    IF k = 0 THEN {<<>>}
    ELSE {Append(s, i) : <<s, i>> \in
            {p \in Draws(n, k - 1) \X (1..n) : p[2] \notin SeqToSet(p[1])}}

\* Mutant of RandomChoice: replace=True, so a position may be drawn twice.
RandomChoiceReplace(n, k) ==
    IF k < 0 \/ (n = 0 /\ k > 0) THEN {[ok |-> FALSE, sel |-> <<>>]}
    ELSE {[ok |-> TRUE, sel |-> s] : s \in [1..k -> 1..n]}

\* Mutant of RandomChoice: a size above the population is clamped to it.
RandomChoiceClamped(n, k) ==
    IF k < 0 THEN {[ok |-> FALSE, sel |-> <<>>]}
    ELSE {[ok |-> TRUE, sel |-> s] : s \in Draws(n, IF k > n THEN n ELSE k)}

\* np.random.choice(n, size=(k,), replace=False): the set of its outcomes.
\* It raises ValueError for a negative size and for k > n ("Cannot take a
\* larger sample than population"). For n = 0 and k = 0 the numpy releases
\* differ (older ones raise "a must be greater than 0", newer ones return an
\* empty array), so both outcomes are possible.
RandomChoice(n, k) ==
    IF k < 0 \/ k > n THEN {[ok |-> FALSE, sel |-> <<>>]}
    ELSE IF n = 0 THEN {[ok |-> FALSE, sel |-> <<>>], [ok |-> TRUE, sel |-> <<>>]}
    ELSE {[ok |-> TRUE, sel |-> s] : s \in Draws(n, k)}

\* Mutant of ArgAfterCall: the cap is applied to the caller's list in place.
ArgAfterCallTrimmed(extended, capped) == capped

\* The caller's list after the call: `fake_pool = fake_pool[-50:]` rebinds the
\* local name to a new list, so the caller's list keeps every appended row.
ArgAfterCall(extended, capped) == extended

\* The outcomes of get_fake(pred, fake_pool, sample_size): `list` is the
\* argument list after the call, `pool` and `fake_A` the returned pair
\* (absent, here empty, when the call raised).
get_fake(c, pred, fake_pool, sample_size) ==
    LET size == RequestedSize(c, sample_size)
        extended == ExtendInPlace(fake_pool, pred)
        capped == CapPool(extended)
    IN  {[list |-> ArgAfterCall(extended, capped),
          outcome |-> IF ch.ok THEN "ok" ELSE "error",
          pool |-> IF ch.ok THEN capped ELSE <<>>,
          sel |-> ch.sel,
          fake_A |-> [i \in 1..Len(ch.sel) |-> capped[ch.sel[i]]]]
         : ch \in RandomChoice(Len(capped), size)}

InitFake ==
    /\ conf \in FakeConfs
    /\ \E n \in InitLens : caller_list = Range(1, n) /\ total = n
    /\ call = NoCall
    /\ ret = NoRet
    /\ grown = 0
    /\ IdleGen
    /\ IdleStop
    /\ IdleAlign
    /\ IdleResidual

\* One call of get_fake on the list `fake_pool` with a pred of fresh rows.
CallGetFake(fake_pool, same, sizes) ==
    \E rows \in 0..MaxRows, sample_size \in sizes :
        /\ grown + rows <= MaxGrowth
        /\ LET pred == Range(total + 1, total + rows)
           IN  \E r \in get_fake(conf, pred, fake_pool, sample_size) :
                 /\ ret' = r
                 /\ caller_list' = r.list
                 /\ call' = [pred |-> pred, fake_pool |-> fake_pool,
                             sample_size |-> sample_size, same |-> same]
                 /\ total' = total + rows
                 /\ grown' = grown + rows
        /\ UNCHANGED fakeFrame

\* The caller passes the list it passed before (or its initial list).
GetFakeSameList ==
    /\ TRUE
    /\ CallGetFake(caller_list, TRUE, SampleSizes)

\* The caller passes the pool the previous call returned.
GetFakeReturnedPool ==
    /\ ret.outcome = "ok"
    /\ CallGetFake(ret.pool, FALSE, SampleSizes)

NextFake == GetFakeSameList \/ GetFakeReturnedPool


SpecFake == InitFake /\ [][NextFake]_vars

\* A single call, from every initial pool, with the larger samples.
InitFakeOne ==
    /\ conf \in FakeConfsOne
    /\ \E n \in InitLens \cup 0..MaxRows \cup {PoolCap} : caller_list = Range(1, n) /\ total = n
    /\ call = NoCall
    /\ ret = NoRet
    /\ grown = 0
    /\ IdleGen
    /\ IdleStop
    /\ IdleAlign
    /\ IdleResidual

GetFakeOnce ==
    /\ ret.outcome = "none"
    /\ CallGetFake(caller_list, TRUE, SampleSizesOne)

NextFakeOne == GetFakeOnce

SpecFakeOne == InitFakeOne /\ [][NextFakeOne]_vars

(***************************************************************************)
(* get_datagen_params, get_data_generator                                  *)
(***************************************************************************)

\* Mutant of get_datagen_params: the commented-out intensity branch is live.
get_datagen_params_intensity(augment_intensity) ==
    IF augment_intensity
    THEN [horizontal_flip |-> FALSE, vertical_flip |-> FALSE,
          rotation_range |-> 20, width_shift_range |-> 0,
          height_shift_range |-> 0, zoom_range |-> 0,
          preprocessing_function |-> "intensity_augmentation"]
    ELSE [horizontal_flip |-> FALSE, vertical_flip |-> FALSE,
          rotation_range |-> 20, width_shift_range |-> 0,
          height_shift_range |-> 0, zoom_range |-> 0]

\* d = dict(horizontal_flip=False, ...); return d
\* (the intensity branch is commented out)
get_datagen_params(augment_intensity) ==
    [horizontal_flip |-> FALSE, vertical_flip |-> FALSE,
     rotation_range |-> 20, width_shift_range |-> 0,
     height_shift_range |-> 0, zoom_range |-> 0]

\* An array argument, as far as the iteration over it goes: its name, and how
\* many batches an iterator over it gives before it is exhausted. The
\* iterator of ImageDataGenerator.flow cycles over its array and is endless;
\* the finite ones stand for any iterator that ends.
Lengths == {[endless |-> TRUE, batches |-> 0]}
           \cup {[endless |-> FALSE, batches |-> n] : n \in 0..MaxBatches}
ArraysOf(side, n) ==
    {a \in [1..n -> [name : {side} \X (1..n), len : Lengths]] :
        \A i \in 1..n : a[i].name = <<side, i>>}

\* A train_images / train_labels argument: None, one array, or a list.
ArgsOf(side) ==
    {[kind |-> "none", arrays |-> <<>>]}
    \cup {[kind |-> "array", arrays |-> a] : a \in ArraysOf(side, 1)}
    \cup UNION {{[kind |-> "list", arrays |-> a] : a \in ArraysOf(side, n)}
                : n \in 0..MaxArrays}

\* if type(train_images) != list: train_images = [train_images]
AsList(arg) == arg.arrays

\* ImageDataGenerator(**params).flow(array, batch_size=..., seed=...)
Flow(params, array, batch_size, seed) ==
    [params |-> params, name |-> array.name, len |-> array.len,
     batch_size |-> batch_size, seed |-> seed]

\* for img_array in train_images: img_gens.append(...)     (lines 47-63)
Gens(c, params, arg) ==
    IF arg.kind = "none" THEN <<>>
    ELSE [i \in 1..Len(AsList(arg)) |->
            Flow(params, AsList(arg)[i], c.batch_size, c.seed)]

\* Mutant of BuildIterator: the error is raised when either side is empty.
BuildIteratorEitherEmpty(img_gens, msk_gens) ==
    IF Len(img_gens) > 0 /\ Len(msk_gens) > 0
    THEN [kind |-> "zip", gens |-> img_gens \o msk_gens]
    ELSE [kind |-> "raised", gens |-> <<>>]

\* The branches at the end of get_data_generator: one generator is returned as
\* it is, several are combined with itertools.zip_longest, none is an error.
BuildIterator(img_gens, msk_gens) ==
    IF Len(img_gens) > 0 /\ Len(msk_gens) > 0
    THEN [kind |-> "zip", gens |-> img_gens \o msk_gens]
    ELSE IF Len(img_gens) > 0 /\ Len(msk_gens) = 0
    THEN IF Len(img_gens) = 1
         THEN [kind |-> "gen", gens |-> img_gens]
         ELSE [kind |-> "zip", gens |-> img_gens]
    ELSE IF Len(img_gens) = 0 /\ Len(msk_gens) > 0
    THEN IF Len(msk_gens) = 1
         THEN [kind |-> "gen", gens |-> msk_gens]
         ELSE [kind |-> "zip", gens |-> msk_gens]
    ELSE [kind |-> "raised", gens |-> <<>>]

get_data_generator(c, train_images, train_labels) ==
    LET image_dict == get_datagen_params(TRUE)
        mask_dict == get_datagen_params(FALSE)
        img_gens == Gens(c, image_dict, train_images)
        msk_gens == Gens(c, mask_dict, train_labels)
    IN  BuildIterator(img_gens, msk_gens)

\* The k-th batch of the generator over the array `name`, and the fill value.
Batch(name, k) == [src |-> name, k |-> k]
None == [src |-> <<"None", 0>>, k |-> 0]

\* next(gen): whether generator g, having given `pos` batches, has another.
HasNext(g, pos) == g.len.endless \/ pos < g.len.batches

\* Mutant of ZipLongestNext: zip, which ends with the shortest iterator.
ZipShortestNext(gens, pos, active) ==
    LET n == Len(gens)
        has == [j \in 1..n |-> active[j] /\ HasNext(gens[j], pos[j])]
    IN  [stop |-> \E j \in 1..n : ~has[j],
         active |-> has,
         pos |-> [j \in 1..n |-> IF has[j] THEN pos[j] + 1 ELSE pos[j]],
         item |-> [j \in 1..n |-> Batch(gens[j].name, pos[j] + 1)]]

\* One __next__ of itertools.zip_longest(*gens): every iterator still active
\* is asked for its next batch; one that is exhausted becomes inactive and
\* gives the fill value None from then on; when none is active any more the
\* iteration stops.
ZipLongestNext(gens, pos, active) ==
    LET n == Len(gens)
        has == [j \in 1..n |-> active[j] /\ HasNext(gens[j], pos[j])]
    IN  [stop |-> \A j \in 1..n : ~has[j],
         active |-> has,
         pos |-> [j \in 1..n |-> IF has[j] THEN pos[j] + 1 ELSE pos[j]],
         item |-> [j \in 1..n |->
                     IF has[j] THEN Batch(gens[j].name, pos[j] + 1) ELSE None]]

\* gen = self.get_data_generator(train_images, train_labels)
GetDataGenerator ==
    /\ it.kind = "new"
    /\ \E train_images \in ArgsOf("img"), train_labels \in ArgsOf("msk") :
         LET r == get_data_generator(conf, train_images, train_labels)
         IN  /\ Len(train_images.arrays) + Len(train_labels.arrays) <= MaxArrays
             /\ gargs' = [train_images |-> train_images,
                          train_labels |-> train_labels]
             /\ it' = [kind |-> r.kind, gens |-> r.gens,
                       pos |-> [j \in 1..Len(r.gens) |-> 0],
                       active |-> [j \in 1..Len(r.gens) |-> TRUE]]
    /\ UNCHANGED <<item, pulled, stopped>>
    /\ UNCHANGED genFrame

\* next(gen) on the iterator of several generators
NextItemZip ==
    /\ it.kind = "zip"
    /\ ~stopped
    /\ pulled < MaxPulls
    /\ LET r == ZipLongestNext(it.gens, it.pos, it.active)
       IN  /\ it' = [it EXCEPT !.pos = IF r.stop THEN it.pos ELSE r.pos,
                               !.active = r.active]
           /\ stopped' = r.stop
           /\ item' = IF r.stop THEN item ELSE r.item
           /\ pulled' = IF r.stop THEN pulled ELSE pulled + 1
    /\ UNCHANGED gargs
    /\ UNCHANGED genFrame

\* next(gen) on a single generator, returned as it is
NextItemSingle ==
    /\ it.kind = "gen"
    /\ ~stopped
    /\ pulled < MaxPulls
    /\ IF HasNext(it.gens[1], it.pos[1])
       THEN /\ it' = [it EXCEPT !.pos = <<it.pos[1] + 1>>]
            /\ item' = Batch(it.gens[1].name, it.pos[1] + 1)
            /\ pulled' = pulled + 1
            /\ stopped' = FALSE
       ELSE /\ it' = [it EXCEPT !.active = <<FALSE>>]
            /\ stopped' = TRUE
            /\ UNCHANGED <<item, pulled>>
    /\ UNCHANGED gargs
    /\ UNCHANGED genFrame

InitGen ==
    /\ conf \in Confs
    /\ IdleGen
    /\ IdleFake
    /\ IdleStop
    /\ IdleAlign
    /\ IdleResidual

NextGen == GetDataGenerator \/ NextItemZip \/ NextItemSingle

SpecGen == InitGen /\ [][NextGen]_vars

(***************************************************************************)
(* stop_criterion                                                          *)
(***************************************************************************)

\* es.on_epoch_end(epoch, logs) of the early-stopping policy the executor is
\* given (keras.callbacks.EarlyStopping, monitoring a loss): a value below
\* the best one resets the wait, any other value lengthens it, and when the
\* wait reaches the patience the policy triggers: it records the epoch in
\* stopped_epoch and sets the stop flag.
on_epoch_end(p, ep, logs) ==
    LET seen == [p EXCEPT !.hook_calls = p.hook_calls + 1,
                          !.hook_epoch = ep, !.hook_logs = logs]
    IN  IF logs < p.best
        THEN [seen EXCEPT !.best = logs, !.wait = 0]
        ELSE IF p.wait + 1 >= p.patience
             THEN [seen EXCEPT !.wait = p.wait + 1, !.stopped_epoch = ep,
                               !.stop_training = TRUE]
             ELSE [seen EXCEPT !.wait = p.wait + 1]

\* if es.stopped_epoch > 0: return True      (otherwise the method ends, None)
StopResult(p) == IF p.stopped_epoch > 0 THEN "True" ELSE "None"

\* def stop_criterion(self, es, logs)
stop_criterion(ep, p, logs) ==
    LET after == on_epoch_end(p, ep, logs)
    IN  [es |-> after, result |-> StopResult(after)]

InitStop ==
    /\ conf \in [batch_size : {1}, seed : {0}]
    /\ epoch = 0
    /\ \E patience \in 0..MaxPatience, best \in 0..(MaxLoss + 1) :
         es = NewPolicy(patience, best)
    /\ scall = NoStopCall
    /\ IdleFake
    /\ IdleGen
    /\ IdleAlign
    /\ IdleResidual

StopCriterion ==
    /\ scall.count < MaxCalls
    /\ \E logs \in 0..MaxLoss :
         LET r == stop_criterion(epoch, es, logs)
         IN  /\ es' = r.es
             /\ scall' = [count |-> scall.count + 1, epoch |-> epoch,
                          logs |-> logs, result |-> r.result]
    /\ UNCHANGED epoch
    /\ UNCHANGED stopFrame

\* The training loop of a subclass moves on to the next epoch.
AdvanceEpoch ==
    /\ epoch < MaxEpoch
    /\ epoch' = epoch + 1
    /\ UNCHANGED <<es, scall>>
    /\ UNCHANGED stopFrame

NextStop == StopCriterion \/ AdvanceEpoch

SpecStop == InitStop /\ [][NextStop]_vars

(***************************************************************************)
(* align_batches                                                           *)
(***************************************************************************)

\* The arrays of the model: a dtype and the entries along the leading axis.
Dtypes == {"float32", "int64"}
Arrays ==
    UNION {[dtype : Dtypes, rows : [1..n -> 0..MaxValue]] : n \in 0..MaxLead}
ArrayLists == UNION {[1..n -> Arrays] : n \in 0..MaxList}

\* Mutant of MinLeading: np.max in the place of np.min.
MaxLeading(array_list) ==
    CHOOSE m \in {Len(array_list[i].rows) : i \in 1..Len(array_list)} :
        \A i \in 1..Len(array_list) : m >= Len(array_list[i].rows)

\* mn = np.min([x.shape[0] for x in array_list])
MinLeading(array_list) ==
    CHOOSE m \in {Len(array_list[i].rows) : i \in 1..Len(array_list)} :
        \A i \in 1..Len(array_list) : m <= Len(array_list[i].rows)

\* x[0:mn]: the slice stops at the end of the array
Slice(rows, mn) == SubSeq(rows, 1, IF mn <= Len(rows) THEN mn ELSE Len(rows))

\* x + 0.: a new floating-point array with the same values (the model's
\* entries are small integers, which every floating-point type holds exactly);
\* an integer array becomes float64, a float array keeps its type.
AddZero(x) ==
    [dtype |-> IF x.dtype = "int64" THEN "float64" ELSE x.dtype,
     rows |-> x.rows]

\* def align_batches(self, array_list); np.min of an empty list raises
align_batches(array_list) ==
    IF Len(array_list) = 0
    THEN [outcome |-> "error", new_list |-> <<>>]
    ELSE LET mn == MinLeading(array_list)
         IN  [outcome |-> "ok",
              new_list |-> [i \in 1..Len(array_list) |->
                  AddZero([array_list[i] EXCEPT
                             !.rows = Slice(array_list[i].rows, mn)])]]

\* The argument is any list of arrays; the call is still to come.
InitAlign ==
    /\ conf \in [batch_size : {1}, seed : {0}]
    /\ \E array_list \in ArrayLists :
         ab = [NoAlign EXCEPT !.array_list = array_list]
    /\ IdleFake
    /\ IdleGen
    /\ IdleStop
    /\ IdleResidual

AlignBatches ==
    /\ ab.outcome = "none"
    /\ LET r == align_batches(ab.array_list)
       IN  ab' = [ab EXCEPT !.outcome = r.outcome, !.new_list = r.new_list]
    /\ UNCHANGED alignFrame

NextAlign == AlignBatches

SpecAlign == InitAlign /\ [][NextAlign]_vars

(***************************************************************************)
(* add_residual                                                            *)
(***************************************************************************)

\* The data of the model: C channels (the last axis) at each position (the
\* other axes, flattened).
Data ==
    UNION {[C : {c}, cells : [1..n -> [1..c -> 0..MaxEntry]]]
           : <<n, c>> \in (0..MaxPos) \X (0..MaxChan)}

\* Mutant of Residual: the loop misses the last channel.
ResidualSkipLast(cell) ==
    IF \E i \in 1..(Len(cell) - 1) : cell[i] = 1 THEN 0 ELSE 1

\* residual = np.ones(...); for i in range(C): residual[data[..., i:i+1] == 1] = 0
\* at one position: 1, set to 0 by any channel that equals 1
Residual(cell) ==
    IF \E i \in 1..Len(cell) : cell[i] = 1 THEN 0 ELSE 1

\* np.concatenate([data, residual], axis=-1)
add_residual(data) ==
    [C |-> data.C + 1,
     cells |-> [p \in 1..Len(data.cells) |->
                  Append(data.cells[p], Residual(data.cells[p]))]]

\* The argument is any data; the call is still to come.
InitResidual ==
    /\ conf \in [batch_size : {1}, seed : {0}]
    /\ \E data \in Data : ar = [NoResidual EXCEPT !.data = data]
    /\ IdleFake
    /\ IdleGen
    /\ IdleStop
    /\ IdleAlign

AddResidual ==
    /\ ar.outcome = "none"
    /\ ar' = [ar EXCEPT !.outcome = "ok", !.result = add_residual(ar.data)]
    /\ UNCHANGED residualFrame

NextResidual == AddResidual

SpecResidual == InitResidual /\ [][NextResidual]_vars

(***************************************************************************)
(* Properties of get_fake.                                                 *)
(***************************************************************************)
Called == ret.outcome # "none"
Min(a, b) == IF a <= b THEN a ELSE b

\* The input pool of the last call followed by the rows of its pred.
AllEntries == call.fake_pool \o call.pred
CappedLen == Min(PoolCap, Len(AllEntries))
Requested == RequestedSize(conf, call.sample_size)

\* C1: the pool a call returns is the last 50 entries, in their order, of the
\* input pool followed by the rows of pred; its length is
\* min(50, len(pool) + rows(pred)), so a returned pool never exceeds 50
\* entries, whatever list the call was given.
C1_ReturnedPoolIsLast50 ==
    ret.outcome = "ok" =>
        /\ Len(ret.pool) = CappedLen
        /\ Len(ret.pool) <= PoolCap
        /\ \A i \in 1..Len(ret.pool) :
              ret.pool[i] = AllEntries[Len(AllEntries) - Len(ret.pool) + i]

\* A call on a returned pool whose new rows push old entries out.
C1_Witness ==
    /\ ret.outcome = "ok"
    /\ ~call.same
    /\ Len(call.pred) > 0
    /\ Len(AllEntries) > PoolCap
    /\ Len(ret.pool) = PoolCap

\* C2: when the requested size (conf.batch_size for -1) is at most the length
\* of the capped pool, the returned sample has exactly that many entries, each
\* the pool entry at a drawn position, and no position is drawn twice; the
\* call returns whenever the capped pool is not empty.
C2_SampleWithoutReplacement ==
    (Called /\ Requested >= 0 /\ Requested <= CappedLen) =>
        /\ CappedLen > 0 => ret.outcome = "ok"
        /\ ret.outcome = "ok" =>
              /\ Len(ret.fake_A) = Requested
              /\ Len(ret.sel) = Requested
              /\ \A i \in 1..Requested :
                    /\ ret.sel[i] \in 1..Len(ret.pool)
                    /\ ret.fake_A[i] = ret.pool[ret.sel[i]]
                    /\ ret.fake_A[i] \in SeqToSet(ret.pool)
              /\ \A i, j \in 1..Requested :
                    i # j => ret.sel[i] # ret.sel[j]

\* Two entries drawn from a full pool.
C2_Witness ==
    /\ ret.outcome = "ok"
    /\ Len(ret.pool) = PoolCap
    /\ Len(ret.fake_A) = 2
    /\ call.sample_size = -1

\* C9: when the requested size exceeds the length of the capped pool, the
\* call raises and returns neither a pool nor a sample.
C9_UndersizedPoolRaises ==
    (Called /\ Requested > CappedLen) =>
        /\ ret.outcome = "error"
        /\ ret.pool = <<>>
        /\ ret.fake_A = <<>>

\* The default size (conf.batch_size) above a full pool.
C9_Witness ==
    /\ ret.outcome = "error"
    /\ call.sample_size = -1
    /\ Requested > PoolCap
    /\ CappedLen = PoolCap

\* C10: a call appends every row of pred to the list it was given and removes
\* nothing from it, also when it raises: when the caller passes the same list
\* again, that list is the old list followed by the rows of pred.
C10_CallerListOnlyGrows ==
    [][(call'.same /\ ret'.outcome # "none") =>
          /\ call'.fake_pool = caller_list
          /\ caller_list' = caller_list \o call'.pred
          /\ Len(caller_list') = Len(caller_list) + Len(call'.pred)]_vars

\* The same list, passed twice, is longer than the cap after a call that
\* raised, while the pool returned before held the cap.
C10_Witness ==
    /\ call.same
    /\ ret.outcome = "error"
    /\ Len(call.pred) > 0
    /\ grown > Len(call.pred)
    /\ Len(call.fake_pool) > PoolCap
    /\ Len(caller_list) > PoolCap + 1

(***************************************************************************)
(* Properties of get_datagen_params and get_data_generator.                *)
(***************************************************************************)
Built == it.kind # "new"

\* The arrays supplied, images first, each side in its input order.
Supplied == AsList(gargs.train_images) \o AsList(gargs.train_labels)

AllFinite == \A j \in 1..Len(Supplied) : ~Supplied[j].len.endless
RECURSIVE MaxOf(_)
MaxOf(S) ==
    IF S = {} THEN 0
    ELSE LET x == CHOOSE y \in S : TRUE
             m == MaxOf(S \ {x})
         IN  IF x > m THEN x ELSE m
Longest == MaxOf({Supplied[j].len.batches : j \in 1..Len(Supplied)})

\* C3: get_data_generator raises exactly when no array is supplied (both
\* arguments None or empty lists); with at least one image or label array it
\* returns an iterator.
C3_RaisesIffNoData ==
    Built =>
        /\ (it.kind = "raised") <=> (Len(Supplied) = 0)
        /\ Len(Supplied) > 0 => it.kind \in {"gen", "zip"}

\* The call with an empty list of images and no labels raised.
C3_Witness ==
    /\ it.kind = "raised"
    /\ gargs.train_images.kind = "list"
    /\ gargs.train_labels.kind = "none"

\* C4: with two or more arrays the iterator is the zip_longest of their
\* generators: its k-th item has one slot per array, images first, slot j
\* holding the k-th batch of generator j, or None once that generator is
\* exhausted; the iteration ends exactly when the longest generator has.
C4_ZipLongest ==
    (Built /\ Len(Supplied) >= 2) =>
        /\ it.kind = "zip"
        /\ pulled >= 1 =>
              /\ Len(item) = Len(Supplied)
              /\ \A j \in 1..Len(Supplied) :
                    item[j] = IF \/ Supplied[j].len.endless
                                 \/ pulled <= Supplied[j].len.batches
                              THEN Batch(Supplied[j].name, pulled)
                              ELSE None
        /\ stopped => (AllFinite /\ pulled = Longest)
        /\ AllFinite => pulled <= Longest

\* An (input, output) pair whose input generator is exhausted and whose
\* output generator is not.
C4_Witness ==
    /\ it.kind = "zip"
    /\ gargs.train_images.kind = "array"
    /\ gargs.train_labels.kind = "array"
    /\ pulled = 2
    /\ item[1] = None
    /\ item[2] = Batch(<<"msk", 1>>, 2)

FixedParams ==
    [horizontal_flip |-> FALSE, vertical_flip |-> FALSE,
     rotation_range |-> 20, width_shift_range |-> 0,
     height_shift_range |-> 0, zoom_range |-> 0]

\* C8: get_datagen_params gives the same fixed settings with and without
\* augment_intensity, so every image generator and every label generator is
\* configured with the same parameters, batch size and seed.
C8_SameParams ==
    /\ get_datagen_params(TRUE) = get_datagen_params(FALSE)
    /\ get_datagen_params(TRUE) = FixedParams
    /\ \A j \in 1..Len(it.gens) :
          /\ it.gens[j].params = FixedParams
          /\ it.gens[j].batch_size = conf.batch_size
          /\ it.gens[j].seed = conf.seed
    /\ \A i, j \in 1..Len(it.gens) :
          /\ it.gens[i].params = it.gens[j].params
          /\ it.gens[i].batch_size = it.gens[j].batch_size
          /\ it.gens[i].seed = it.gens[j].seed

\* Image generators and label generators were built.
C8_Witness ==
    /\ it.kind = "zip"
    /\ Len(AsList(gargs.train_images)) >= 1
    /\ Len(AsList(gargs.train_labels)) >= 1
    /\ Len(it.gens) = Len(Supplied)

(***************************************************************************)
(* Properties of stop_criterion.                                           *)
(***************************************************************************)

\* C5: every call of stop_criterion runs the policy's epoch-end hook once,
\* with the executor's epoch counter and the given logs, and returns True
\* exactly when the policy has triggered, at whatever epoch it triggered.
C5_ReportsTrigger ==
    scall.count > 0 =>
        /\ es.hook_calls = scall.count
        /\ es.hook_epoch = scall.epoch
        /\ es.hook_logs = scall.logs
        /\ (scall.result = "True") <=> es.stop_training

(***************************************************************************)
(* Properties of align_batches.                                            *)
(***************************************************************************)
LeadingLens == {Len(ab.array_list[i].rows) : i \in 1..Len(ab.array_list)}

\* C6: for a non-empty list, align_batches returns as many arrays, in the
\* same order, each holding the first mn entries of its input array with
\* their values, mn being the least leading length of the inputs.
C6_TrimsToMinimum ==
    (ab.outcome # "none" /\ Len(ab.array_list) > 0) =>
        /\ ab.outcome = "ok"
        /\ Len(ab.new_list) = Len(ab.array_list)
        /\ \E mn \in LeadingLens :
              /\ \A n \in LeadingLens : mn <= n
              /\ \A i \in 1..Len(ab.array_list) :
                    /\ Len(ab.new_list[i].rows) = mn
                    /\ \A k \in 1..mn :
                          ab.new_list[i].rows[k] = ab.array_list[i].rows[k]

\* Two arrays of different lengths, the longer one trimmed to the shorter,
\* which is not empty.
C6_Witness ==
    /\ ab.outcome = "ok"
    /\ Len(ab.array_list) = 2
    /\ Len(ab.array_list[1].rows) = 2
    /\ Len(ab.array_list[2].rows) = 1
    /\ Len(ab.new_list[1].rows) = 1
    /\ ab.new_list[1].rows[1] = 1

(***************************************************************************)
(* Properties of add_residual.                                             *)
(***************************************************************************)
ZeroOne ==
    \A p \in 1..Len(ar.data.cells) : \A i \in 1..ar.data.C :
        ar.data.cells[p][i] \in {0, 1}
OneHotLike ==
    \A p \in 1..Len(ar.data.cells) :
        Cardinality({i \in 1..ar.data.C : ar.data.cells[p][i] = 1}) <= 1

\* C7: for data of C channels with entries 0 or 1, add_residual returns C+1
\* channels, the first C as given, the last one 1 exactly where no given
\* channel is 1 and 0 elsewhere; when at most one given channel is 1 at a
\* position, exactly one of the C+1 channels is 1 there.
C7_ComplementChannel ==
    (ar.outcome = "ok" /\ ZeroOne) =>
        /\ ar.result.C = ar.data.C + 1
        /\ Len(ar.result.cells) = Len(ar.data.cells)
        /\ \A p \in 1..Len(ar.data.cells) :
              /\ Len(ar.result.cells[p]) = ar.data.C + 1
              /\ \A i \in 1..ar.data.C :
                    ar.result.cells[p][i] = ar.data.cells[p][i]
              /\ ar.result.cells[p][ar.data.C + 1] =
                    IF \A i \in 1..ar.data.C : ar.data.cells[p][i] # 1
                    THEN 1 ELSE 0
              /\ OneHotLike =>
                    Cardinality({i \in 1..(ar.data.C + 1) :
                                   ar.result.cells[p][i] = 1}) = 1

\* Two channels and two positions: a position with the last channel set, and
\* a position with no channel set.
C7_Witness ==
    /\ ar.outcome = "ok"
    /\ ZeroOne
    /\ ar.data.C = 2
    /\ ar.data.cells = <<(<<0, 1>>), (<<0, 0>>)>>
    /\ ar.result.cells = <<(<<0, 1, 0>>), (<<0, 0, 1>>)>>

====
